---- MODULE Spec2Model ----
(***************************************************************************)
(* Model of flask_oauthlib/provider.py: the OAuthRequestValidator methods, *)
(* OAuth.authorize_handler and the redemption of an authorization code.    *)
(* Four specifications, one per endpoint: SpecBearer (the token checks of  *)
(* a resource request), Spec (the client checks on one request),           *)
(* SpecAuthorize (the authorize handler) and SpecToken (token requests     *)
(* that present an authorization code).                                    *)
(*                                                                         *)
(* Python values are modelled as follows.                                  *)
(*   - None is the empty tuple <<>>; an object x that may be None is <<x>>.*)
(*   - a list is a sequence; set(list) is ToSet(list).                     *)
(*   - the result of a call is a string: "True", "False", "None", "value"  *)
(*     (the value is kept beside it), or the name of the exception that    *)
(*     left the method.                                                    *)
(*   - datetimes are naturals.                                             *)
(***************************************************************************)
EXTENDS Naturals, Sequences, FiniteSets

VARIABLES
    tokens,           \* the token store behind the tokengetter
    clients,          \* the client store behind the clientgetter
    now,              \* datetime.datetime.utcnow()
    request,          \* the oauthlib Request of the current request: client, user, scopes
    config,           \* self.app.config, the two error settings of it; None while
                      \* no app is bound (self.app was never assigned)
    getters,          \* which of clientgetter, tokengetter, grantgetter are registered
    error_uri_cache,  \* the cached_property OAuth.error_uri: None until first read
    grants,           \* the grant store behind the grantgetter
    exchange,         \* the token requests in flight: where each one stands
    last              \* the last call: its name and what it returned

vars == <<tokens, clients, now, request, config, getters, error_uri_cache,
          grants, exchange, last>>

\* ------------------------------------------------------------------ bounds

MaxTime == 3

\* ------------------------------------------------------------ Python values

None == <<>>
Some(x) == <<x>>
Get(o) == o[1]

\* set(list)
ToSet(list) == {list[i] : i \in DOMAIN list}

\* x in list
In(x, list) == \E i \in DOMAIN list : list[i] = x

\* the request object oauthlib hands to the validator: nothing bound yet
FreshRequest == [client |-> None, user |-> None, scopes |-> None]

\* ------------------------------------------------------------------ inputs

\* scope lists a stored token may carry (order and duplicates as a list has them)
TokenScopeLists ==
    {<<>>, <<"a">>, <<"a", "b", "c">>, <<"b", "a">>, <<"a", "a">>}

\* scope lists a caller may pass
ReqScopeLists ==
    {<<>>, <<"a">>, <<"d">>, <<"a", "b">>, <<"b", "a">>, <<"a", "d">>,
     <<"a", "a">>, <<"a", "b", "c">>}

\* token strings a caller may present; "tx" is in no store
TokenStrings == {"t1", "t2", "tx"}

Token(name, scopes, expires, user) ==
    [access_token |-> name, refresh_token |-> name, scopes |-> scopes,
     expires |-> expires, user |-> user]

\* ------------------------------------------------------------- token getter

\* self._tokengetter(access_token=token)
tokengetter_access(token) ==
    IF \E t \in tokens : t.access_token = token
    THEN Some(CHOOSE t \in tokens : t.access_token = token)
    ELSE None

\* self._tokengetter(refresh_token=refresh_token)
tokengetter_refresh(refresh_token) ==
    IF \E t \in tokens : t.refresh_token = refresh_token
    THEN Some(CHOOSE t \in tokens : t.refresh_token = refresh_token)
    ELSE None

\* ------------------------------------------------- validate_bearer_token

validate_bearer_token_Gte(token, scopes, req) ==
    LET tok == tokengetter_access(token) IN
    IF tok = None THEN [ret |-> "False", request |-> req]
    ELSE IF now >= Get(tok).expires THEN [ret |-> "False", request |-> req]
    ELSE IF ~ (ToSet(scopes) \subseteq ToSet(Get(tok).scopes))
    THEN [ret |-> "False", request |-> req]
    ELSE [ret |-> "True",
          request |-> [req EXCEPT !.user = Some(Get(tok).user),
                                  !.scopes = Some(scopes)]]

validate_bearer_token_Equal(token, scopes, req) ==
    LET tok == tokengetter_access(token) IN
    IF tok = None THEN [ret |-> "False", request |-> req]
    ELSE IF now > Get(tok).expires THEN [ret |-> "False", request |-> req]
    ELSE IF ToSet(Get(tok).scopes) # ToSet(scopes)
    THEN [ret |-> "False", request |-> req]
    ELSE [ret |-> "True",
          request |-> [req EXCEPT !.user = Some(Get(tok).user),
                                  !.scopes = Some(scopes)]]

validate_bearer_token_BindEarly(token, scopes, req) ==
    LET tok == tokengetter_access(token) IN
    IF tok = None THEN [ret |-> "False", request |-> req]
    ELSE LET bound == [req EXCEPT !.user = Some(Get(tok).user),
                                  !.scopes = Some(scopes)] IN
         IF now > Get(tok).expires THEN [ret |-> "False", request |-> bound]
         ELSE IF ~ (ToSet(scopes) \subseteq ToSet(Get(tok).scopes))
         THEN [ret |-> "False", request |-> bound]
         ELSE [ret |-> "True", request |-> bound]

\* the result of the call and the request object after it
validate_bearer_token(token, scopes, req) ==
    LET tok == tokengetter_access(token) IN
    IF tok = None THEN [ret |-> "False", request |-> req]
    ELSE IF now > Get(tok).expires THEN [ret |-> "False", request |-> req]
    ELSE IF ~ (ToSet(scopes) \subseteq ToSet(Get(tok).scopes))
    THEN [ret |-> "False", request |-> req]
    ELSE [ret |-> "True",
          request |-> [req EXCEPT !.user = Some(Get(tok).user),
                                  !.scopes = Some(scopes)]]

\* --------------------------------------------------------- confirm_scopes

\* tok.scopes on a tok that is None raises AttributeError
confirm_scopes(refresh_token, scopes) ==
    LET tok == tokengetter_refresh(refresh_token) IN
    IF tok = None THEN "AttributeError"
    ELSE IF ToSet(Get(tok).scopes) = ToSet(scopes) THEN "True" ELSE "False"

\* ------------------------------------------- resource requests: the actions

NoCall == [op |-> "none", ret |-> ""]

\* what the specifications of the other endpoints leave alone
StaticTokens == {}
StaticClients == {}
StaticConfig == <<>>
AllGetters == {"clientgetter", "tokengetter", "grantgetter"}
StaticGrants == {}
StaticExchange == <<>>

InitBearer ==
    /\ \E sc \in TokenScopeLists, ex \in 0..MaxTime :
          tokens = {Token("t1", sc, ex, "alice"), Token("t2", <<"a", "d">>, 1, "bob")}
    /\ clients = StaticClients
    /\ now = 0
    /\ request = FreshRequest
    /\ config = StaticConfig
    /\ getters = AllGetters
    /\ error_uri_cache = None
    /\ grants = StaticGrants
    /\ exchange = StaticExchange
    /\ last = NoCall

\* the clock advances
Tick ==
    /\ now < MaxTime
    /\ now' = now + 1
    /\ UNCHANGED <<tokens, clients, request, config, getters, error_uri_cache,
                 grants, exchange, last>>

\* a new resource request arrives: a new request object
NewResourceRequest ==
    /\ request' = FreshRequest
    /\ last' = NoCall
    /\ UNCHANGED <<tokens, clients, now, config, getters, error_uri_cache,
                 grants, exchange>>

ValidateBearerTokenCall(token, scopes) ==
    LET r == validate_bearer_token(token, scopes, request) IN
    /\ request' = r.request
    /\ last' = [op |-> "validate_bearer_token", ret |-> r.ret]
    /\ UNCHANGED <<tokens, clients, now, config, getters, error_uri_cache,
                 grants, exchange>>

ValidateBearerToken ==
    \E token \in TokenStrings, scopes \in ReqScopeLists :
        ValidateBearerTokenCall(token, scopes)

ConfirmScopesCall(refresh_token, scopes) ==
    /\ last' = [op |-> "confirm_scopes", ret |-> confirm_scopes(refresh_token, scopes)]
    /\ UNCHANGED <<tokens, clients, now, request, config, getters, error_uri_cache,
                 grants, exchange>>

ConfirmScopes ==
    \E refresh_token \in TokenStrings, scopes \in ReqScopeLists :
        ConfirmScopesCall(refresh_token, scopes)

NextBearer ==
    \/ Tick
    \/ NewResourceRequest
    \/ ValidateBearerToken
    \/ ConfirmScopes

SpecBearer == InitBearer /\ [][NextBearer]_vars

\* ------------------------------------------------------------ client getter

\* client ids a caller may present; "cx" is in no store
ClientIds == {"c1", "c2", "cx"}

\* redirect URIs a request may carry
RedirectUris == {"https://app/cb", "https://app/cb2", "https://evil/cb"}

\* a client object; confidential is None when the object has no such attribute
Client(id, type, confidential, uris, scopes) ==
    [client_id |-> id, client_type |-> type, confidential |-> confidential,
     redirect_uris |-> uris, default_redirect_uri |-> uris[1],
     default_scopes |-> scopes]

ClientTypes == {"confidential", "public"}
ConfidentialAttrs == {None, Some("confidential"), Some("public"), Some("secret")}
RedirectUriLists == {<<"https://app/cb">>, <<"https://app/cb", "https://app/cb2">>}

OtherClient == Client("c2", "public", None, <<"https://other/cb">>, <<"b">>)

\* self._clientgetter(client_id)
clientgetter(client_id) ==
    IF \E c \in clients : c.client_id = client_id
    THEN Some(CHOOSE c \in clients : c.client_id = client_id)
    ELSE None

\* request.client or self._clientgetter(client_id)
client_or_getter(client_id, req) ==
    IF req.client # None THEN req.client ELSE clientgetter(client_id)

\* ------------------------------------------------- authenticate_client_id

authenticate_client_id_NoAttr(client_id, req) ==
    LET client == client_or_getter(client_id, req) IN
    IF client = None THEN [ret |-> "False", val |-> None, request |-> req]
    ELSE [ret |-> IF Get(client).client_type # "confidential" THEN "True" ELSE "False",
          val |-> None,
          request |-> [req EXCEPT !.client = client]]

authenticate_client_id(client_id, req) ==
    LET client == client_or_getter(client_id, req) IN
    IF client = None THEN [ret |-> "False", val |-> None, request |-> req]
    ELSE LET confidential ==
                 IF Get(client).confidential # None
                 THEN Get(Get(client).confidential)
                 ELSE "confidential"
         IN [ret |-> IF Get(client).client_type # confidential THEN "True" ELSE "False",
             val |-> None,
             request |-> [req EXCEPT !.client = client]]

\* ------------------------------------------------------ validate_client_id

validate_client_id(client_id, req) ==
    LET client == client_or_getter(client_id, req) IN
    IF client # None
    THEN [ret |-> "True", val |-> None, request |-> [req EXCEPT !.client = client]]
    ELSE [ret |-> "False", val |-> None, request |-> req]

\* ---------------------------- get_default_redirect_uri, get_default_scopes

\* client.default_redirect_uri on a client that is None raises AttributeError
get_default_redirect_uri(client_id, req) ==
    LET client == client_or_getter(client_id, req) IN
    IF client = None THEN [ret |-> "AttributeError", val |-> None, request |-> req]
    ELSE [ret |-> "value", val |-> Some(Get(client).default_redirect_uri),
          request |-> req]

get_default_scopes(client_id, req) ==
    LET client == client_or_getter(client_id, req) IN
    IF client = None THEN [ret |-> "AttributeError", val |-> None, request |-> req]
    ELSE [ret |-> "value", val |-> Some(Get(client).default_scopes), request |-> req]

\* --------------------------------------------------- validate_redirect_uri

\* request.client is assigned the getter's result, whatever it held; then
\* request.client.redirect_uris on None raises AttributeError
validate_redirect_uri(client_id, redirect_uri, req) ==
    LET client == clientgetter(client_id)
        bound == [req EXCEPT !.client = client]
    IN  IF client = None
        THEN [ret |-> "AttributeError", val |-> None, request |-> bound]
        ELSE [ret |-> IF In(redirect_uri, Get(client).redirect_uris)
                      THEN "True" ELSE "False",
              val |-> None, request |-> bound]

\* ----------------------------- validator calls on one request: the actions

NoClientCall == [op |-> "none", ret |-> "", val |-> None]

ClientStores ==
    {{OtherClient}} \cup
    {{Client("c1", type, conf, uris, <<"a">>), OtherClient} :
        type \in ClientTypes, conf \in ConfidentialAttrs, uris \in RedirectUriLists}

Init ==
    /\ tokens = StaticTokens
    /\ clients \in ClientStores
    /\ now = 0
    /\ request = FreshRequest
    /\ config = StaticConfig
    /\ getters = AllGetters
    /\ error_uri_cache = None
    /\ grants = StaticGrants
    /\ exchange = StaticExchange
    /\ last = NoClientCall

\* what a validator call leaves alone
ClientFrame == UNCHANGED <<tokens, clients, now, config, getters, error_uri_cache,
                 grants, exchange>>

\* oauthlib builds a new request object for a new HTTP request
NewRequest ==
    /\ request' = FreshRequest
    /\ last' = NoClientCall
    /\ ClientFrame

AuthenticateClientIdCall(client_id) ==
    LET r == authenticate_client_id(client_id, request) IN
    /\ request' = r.request
    /\ last' = [op |-> "authenticate_client_id", ret |-> r.ret, val |-> r.val]
    /\ ClientFrame

ValidateClientIdCall(client_id) ==
    LET r == validate_client_id(client_id, request) IN
    /\ request' = r.request
    /\ last' = [op |-> "validate_client_id", ret |-> r.ret, val |-> r.val]
    /\ ClientFrame

ValidateRedirectUriCall(client_id, redirect_uri) ==
    LET r == validate_redirect_uri(client_id, redirect_uri, request) IN
    /\ request' = r.request
    /\ last' = [op |-> "validate_redirect_uri", ret |-> r.ret, val |-> r.val]
    /\ ClientFrame

GetDefaultRedirectUriCall(client_id) ==
    LET r == get_default_redirect_uri(client_id, request) IN
    /\ request' = r.request
    /\ last' = [op |-> "get_default_redirect_uri", ret |-> r.ret, val |-> r.val]
    /\ ClientFrame

GetDefaultScopesCall(client_id) ==
    LET r == get_default_scopes(client_id, request) IN
    /\ request' = r.request
    /\ last' = [op |-> "get_default_scopes", ret |-> r.ret, val |-> r.val]
    /\ ClientFrame

AuthenticateClientId == \E client_id \in ClientIds : AuthenticateClientIdCall(client_id)

ValidateClientId == \E client_id \in ClientIds : ValidateClientIdCall(client_id)

ValidateRedirectUri ==
    \E client_id \in ClientIds, redirect_uri \in RedirectUris :
        ValidateRedirectUriCall(client_id, redirect_uri)

GetDefaultRedirectUri ==
    \E client_id \in ClientIds : GetDefaultRedirectUriCall(client_id)

GetDefaultScopes == \E client_id \in ClientIds : GetDefaultScopesCall(client_id)

Next ==
    \/ NewRequest
    \/ AuthenticateClientId
    \/ ValidateClientId
    \/ ValidateRedirectUri
    \/ GetDefaultRedirectUri
    \/ GetDefaultScopes

Spec == Init /\ [][Next]_vars

\* ------------------------------------------------- OAuth.get_app, error_uri

\* url_for(error_endpoint): the URL the application routes that endpoint at
url_for(endpoint) ==
    IF endpoint = "oauth_error" THEN "/oauth/errors" ELSE "/" \o endpoint

\* `if x:` on a configuration value: None and '' are false
Truthy(o) == o # None /\ Get(o) # ""

\* get_app reads self.app, which only init_app assigns: on an object built
\* without an app and never given one the read raises AttributeError
get_app ==
    IF config = None THEN [ret |-> "AttributeError", val |-> None]
    ELSE [ret |-> "value", val |-> config]

\* the property's body, run when nothing is cached yet
error_uri_compute ==
    LET app == get_app IN
    IF app.ret = "AttributeError" THEN [ret |-> "AttributeError", val |-> ""]
    ELSE IF Truthy(Get(app.val).OAUTH_PROVIDER_ERROR_URI)
    THEN [ret |-> "value", val |-> Get(Get(app.val).OAUTH_PROVIDER_ERROR_URI)]
    ELSE IF Truthy(Get(app.val).OAUTH_PROVIDER_ERROR_ENDPOINT)
    THEN [ret |-> "value",
          val |-> url_for(Get(Get(app.val).OAUTH_PROVIDER_ERROR_ENDPOINT))]
    ELSE [ret |-> "value", val |-> "/errors"]

\* cached_property: the cached value once there is one, whatever the
\* configuration has become since
error_uri ==
    IF error_uri_cache # None THEN [ret |-> "value", val |-> Get(error_uri_cache)]
    ELSE error_uri_compute

\* OAuth.server: the three getters must be registered. (The Server it builds
\* is cached; a getter stays registered, so the cache is never stale.)
server == IF getters = AllGetters THEN "Server" ELSE "RuntimeError"

\* ------------------------------------ the validator methods left as stubs

\* `pass`: the method returns None
validate_response_type(client_id, response_type, req) == "None"
validate_scopes(client_id, scopes, req) == "None"

\* ------------------------------------------------------- authorize_handler

\* what the authorization request carries; None is a parameter left out
AuthClientIds == {None} \cup {Some(c) : c \in ClientIds}
AuthRedirectUris == {None} \cup {Some(u) : u \in RedirectUris}
AuthResponseTypes == {None, Some("code"), Some("bogus")}

\* server.validate_authorization_request(uri, http_method, body, headers):
\* oauthlib's checks of an authorization request, in its order, on a new request
\* object, each through the validator above. A FatalClientError is "fatal", any
\* other OAuth2Error is "error", another exception is "raised".
validate_authorization_request(args) ==
    IF args.client_id = None
    THEN [outcome |-> "fatal", error |-> "MissingClientIdError"]
    ELSE
    LET cid == Get(args.client_id)
        v1 == validate_client_id(cid, FreshRequest)
    IN
    IF v1.ret # "True"
    THEN [outcome |-> "fatal", error |-> "InvalidClientIdError"]
    ELSE
    LET v2 == IF args.redirect_uri # None
              THEN validate_redirect_uri(cid, Get(args.redirect_uri), v1.request)
              ELSE get_default_redirect_uri(cid, v1.request)
    IN
    IF v2.ret = "AttributeError"
    THEN [outcome |-> "raised", error |-> "AttributeError"]
    ELSE IF args.redirect_uri # None /\ v2.ret # "True"
    THEN [outcome |-> "fatal", error |-> "MismatchingRedirectURIError"]
    ELSE IF args.redirect_uri = None /\ ~ Truthy(v2.val)
    THEN [outcome |-> "fatal", error |-> "MissingRedirectURIError"]
    ELSE IF args.response_type = None
    THEN [outcome |-> "error", error |-> "InvalidRequestError"]
    ELSE IF Get(args.response_type) \notin {"code", "token"}
    THEN [outcome |-> "error", error |-> "UnsupportedResponseTypeError"]
    ELSE IF validate_response_type(cid, Get(args.response_type), v2.request) # "True"
    THEN [outcome |-> "error", error |-> "UnauthorizedClientError"]
    ELSE IF validate_scopes(cid, <<>>, v2.request) # "True"
    THEN [outcome |-> "error", error |-> "InvalidScopeError"]
    ELSE [outcome |-> "ok", error |-> ""]

\* the wrapper authorize_handler returns, called with a request: it calls the
\* view f ("view"), returns redirect(e.in_uri(self.error_uri)) ("redirect", to
\* target with the error added to its query), or lets an exception out
\* ("raised"); cached tells whether self.error_uri returned a value
decorated(args) ==
    IF server = "RuntimeError"
    THEN [kind |-> "raised", target |-> "", error |-> "RuntimeError", cached |-> FALSE]
    ELSE
    LET v == validate_authorization_request(args) IN
    IF v.outcome = "ok"
    THEN [kind |-> "view", target |-> "", error |-> "", cached |-> FALSE]
    ELSE IF v.outcome = "fatal"
    THEN IF error_uri.ret = "AttributeError"
         THEN [kind |-> "raised", target |-> "", error |-> "AttributeError",
               cached |-> FALSE]
         ELSE [kind |-> "redirect", target |-> error_uri.val, error |-> v.error,
               cached |-> TRUE]
    ELSE [kind |-> "raised", target |-> "", error |-> v.error, cached |-> FALSE]

\* ------------------------------------ authorization requests: the actions

NoAuthCall ==
    [op |-> "none", args |-> [client_id |-> None, redirect_uri |-> None,
                              response_type |-> None],
     kind |-> "", target |-> "", error |-> ""]

ErrorUriSettings == {None, Some(""), Some("https://as/error")}
ErrorEndpointSettings == {None, Some("oauth_error")}

\* the configuration an app may carry
AppConfigs ==
    [OAUTH_PROVIDER_ERROR_URI : ErrorUriSettings,
     OAUTH_PROVIDER_ERROR_ENDPOINT : ErrorEndpointSettings]

AuthClientStores ==
    {{OtherClient}} \cup
    {{Client("c1", "public", None, uris, <<"a">>), OtherClient} :
        uris \in RedirectUriLists}

\* OAuth(app) or OAuth(): an app bound or none, no getter registered
InitAuthorize ==
    /\ tokens = StaticTokens
    /\ clients \in AuthClientStores
    /\ now = 0
    /\ request = FreshRequest
    /\ config \in {None} \cup {Some(c) : c \in AppConfigs}
    /\ getters = {}
    /\ error_uri_cache = None
    /\ grants = StaticGrants
    /\ exchange = StaticExchange
    /\ last = NoAuthCall

\* init_app(app): self.app is that app from now on; nothing cached is dropped
InitApp ==
    /\ \E c \in AppConfigs : config' = Some(c)
    /\ last' = NoAuthCall
    /\ UNCHANGED <<tokens, clients, now, request, getters, error_uri_cache,
                   grants, exchange>>

\* OAuth.clientgetter(f): f is the lookup in the client store
Clientgetter ==
    /\ getters' = getters \cup {"clientgetter"}
    /\ last' = NoAuthCall
    /\ UNCHANGED <<tokens, clients, now, request, config, error_uri_cache,
                   grants, exchange>>

\* OAuth.tokengetter(f): f is the lookup in the token store
Tokengetter ==
    /\ getters' = getters \cup {"tokengetter"}
    /\ last' = NoAuthCall
    /\ UNCHANGED <<tokens, clients, now, request, config, error_uri_cache,
                   grants, exchange>>

\* OAuth.grantgetter(f): f is the lookup in the grant store
Grantgetter ==
    /\ getters' = getters \cup {"grantgetter"}
    /\ last' = NoAuthCall
    /\ UNCHANGED <<tokens, clients, now, request, config, error_uri_cache,
                   grants, exchange>>

AuthorizeCall(args) ==
    LET resp == decorated(args) IN
    /\ last' = [op |-> "authorize", args |-> args, kind |-> resp.kind,
                target |-> resp.target, error |-> resp.error]
    /\ error_uri_cache' = IF resp.cached THEN Some(resp.target) ELSE error_uri_cache
    /\ UNCHANGED <<tokens, clients, now, request, config, getters,
                   grants, exchange>>

Authorize ==
    \E args \in [client_id : AuthClientIds, redirect_uri : AuthRedirectUris,
                 response_type : AuthResponseTypes] :
        AuthorizeCall(args)

NextAuthorize ==
    \/ InitApp
    \/ Clientgetter
    \/ Tokengetter
    \/ Grantgetter
    \/ Authorize

SpecAuthorize == InitAuthorize /\ [][NextAuthorize]_vars

\* ------------------------------------------------- the authorization code

\* authorization codes a token request may present; "nope" was never issued
Codes == {"XYZ", "nope"}

Grant(client_id, code) == [client_id |-> client_id, code |-> code]

\* self._grantgetter(client_id=client_id, code=code)
grantgetter(client_id, code) ==
    IF \E g \in grants : g.client_id = client_id /\ g.code = code
    THEN Some(CHOOSE g \in grants : g.client_id = client_id /\ g.code = code)
    ELSE None

\* `pass`: the method returns None, whatever the grant store holds
validate_code(client_id, code) == "None"

\* grant.delete(): the grant store once the grant has destroyed itself
\* (nothing to remove when another request has deleted it already)
grant_delete(grant) == grants \ {grant}

\* ---------------------------- the authorization code: the actions

\* the requests that may be in flight together
TokenRequests == {"r1", "r2"}

\* where a request stands: a token request is "received", then "passed" or
\* "rejected" by validate_code; a call of invalidate_authorization_code is
\* "called" or follows "passed", is "looked" between its two statements and
\* ends "done" or "raised". grant is what the call holds between the two.
Idle == [pc |-> "idle", client_id |-> "", code |-> "", valid |-> "",
         grant |-> None]

InitToken ==
    /\ tokens = StaticTokens
    /\ clients = {OtherClient}
    /\ now = 0
    /\ request = FreshRequest
    /\ config = StaticConfig
    /\ getters = AllGetters
    /\ error_uri_cache = None
    /\ grants = {Grant("c2", "XYZ"), Grant("c2", "ABC")}
    /\ exchange = [r \in TokenRequests |-> Idle]
    /\ last = NoCall

\* what a step of a request leaves alone, the grant store apart
TokenFrame ==
    UNCHANGED <<tokens, clients, now, request, config, getters, error_uri_cache, last>>

\* a token request with grant_type=authorization_code arrives
TokenRequest(r) ==
    /\ exchange[r].pc = "idle"
    /\ \E client_id \in ClientIds, code \in Codes :
          exchange' = [exchange EXCEPT ![r] =
                          [Idle EXCEPT !.pc = "received", !.client_id = client_id,
                                       !.code = code]]
    /\ UNCHANGED grants
    /\ TokenFrame

\* validate_code(client_id, code, client, request), called for the token
\* request; a result that is not true ends the request with invalid_grant
ValidateCode(r) ==
    /\ exchange[r].pc = "received"
    /\ LET valid == validate_code(exchange[r].client_id, exchange[r].code) IN
       exchange' = [exchange EXCEPT ![r] =
          [@ EXCEPT !.pc = IF valid = "True" THEN "passed" ELSE "rejected",
                    !.valid = valid]]
    /\ UNCHANGED grants
    /\ TokenFrame

\* invalidate_authorization_code(client_id, code, request) called on the
\* validator directly, outside a token request
InvalidateCall(r) ==
    /\ exchange[r].pc = "idle"
    /\ \E client_id \in ClientIds, code \in Codes :
          exchange' = [exchange EXCEPT ![r] =
                          [Idle EXCEPT !.pc = "called", !.client_id = client_id,
                                       !.code = code]]
    /\ UNCHANGED grants
    /\ TokenFrame

\* invalidate_authorization_code, first statement:
\* grant = self._grantgetter(client_id=client_id, code=code).
\* A token request comes here only once validate_code has passed.
InvalidateLookup(r) ==
    /\ exchange[r].pc \in {"called", "passed"}
    /\ exchange' = [exchange EXCEPT ![r] =
          [@ EXCEPT !.pc = "looked",
                    !.grant = grantgetter(exchange[r].client_id, exchange[r].code)]]
    /\ UNCHANGED grants
    /\ TokenFrame

\* invalidate_authorization_code, second statement: grant.delete(), which
\* raises AttributeError on None
InvalidateDelete(r) ==
    /\ exchange[r].pc = "looked"
    /\ IF exchange[r].grant = None
       THEN /\ exchange' = [exchange EXCEPT ![r].pc = "raised"]
            /\ UNCHANGED grants
       ELSE /\ exchange' = [exchange EXCEPT ![r].pc = "done"]
            /\ grants' = grant_delete(Get(exchange[r].grant))
    /\ TokenFrame

NextToken ==
    \E r \in TokenRequests :
        \/ TokenRequest(r)
        \/ ValidateCode(r)
        \/ InvalidateCall(r)
        \/ InvalidateLookup(r)
        \/ InvalidateDelete(r)

SpecToken == InitToken /\ [][NextToken]_vars

\* ================================================================== claims

\* the stored token an access-token string names, as a set (empty: no token)
StoredAccess(token) == {t \in tokens : t.access_token = token}
StoredRefresh(token) == {t \in tokens : t.refresh_token = token}
StoredClient(client_id) == {c \in clients : c.client_id = client_id}
T1 == CHOOSE t \in tokens : t.access_token = "t1"

\* C1: validate_bearer_token returns False when the token getter yields no
\* token, when now is later than the token's expiry, or when the required
\* scopes are not a subset of the token's scopes, and True in every other case.
C1_BearerTokenValidation ==
    [][\A token \in TokenStrings, scopes \in ReqScopeLists :
         ValidateBearerTokenCall(token, scopes) =>
            last'.ret =
               IF \/ StoredAccess(token) = {}
                  \/ \E t \in StoredAccess(token) :
                        \/ now > t.expires
                        \/ \E s \in ToSet(scopes) : s \notin ToSet(t.scopes)
               THEN "False" ELSE "True"]_vars

\* C1 witness: the token scoped a, b, c has just passed a requirement a, b.
C1_Witness ==
    /\ last = [op |-> "validate_bearer_token", ret |-> "True"]
    /\ T1.scopes = <<"a", "b", "c">>
    /\ request.user = Some("alice")
    /\ request.scopes = Some(<<"a", "b">>)

\* C6 as stated: a successful validate_bearer_token binds the stored token's
\* user and the stored token's scopes into the request; a failed one leaves the
\* request as it was.
C6_BindsTokenScopes ==
    [][\A token \in TokenStrings, scopes \in ReqScopeLists :
         ValidateBearerTokenCall(token, scopes) =>
            /\ last'.ret = "True" =>
                  \E t \in StoredAccess(token) :
                     /\ request'.user = Some(t.user)
                     /\ request'.scopes # None
                     /\ ToSet(Get(request'.scopes)) = ToSet(t.scopes)
            /\ last'.ret = "False" => request' = request]_vars

\* C6 amended: a successful validate_bearer_token binds the stored token's user
\* and the required scope list it was called with (a subset of the token's
\* scopes) into the request and leaves request.client alone; a failed one
\* leaves the request as it was.
C6_BindsRequiredScopes ==
    [][\A token \in TokenStrings, scopes \in ReqScopeLists :
         ValidateBearerTokenCall(token, scopes) =>
            /\ last'.ret = "True" =>
                  \E t \in StoredAccess(token) :
                     /\ request'.user = Some(t.user)
                     /\ request'.scopes = Some(scopes)
                     /\ ToSet(scopes) \subseteq ToSet(t.scopes)
                     /\ request'.client = request.client
            /\ last'.ret = "False" => request' = request]_vars

\* C6 witness: a request bound by a success (user alice, scopes a: fewer than
\* the token's a, b, c) has then had a call fail, and kept what was bound.
C6_Witness ==
    /\ last = [op |-> "validate_bearer_token", ret |-> "False"]
    /\ T1.scopes = <<"a", "b", "c">>
    /\ request.user = Some("alice")
    /\ request.scopes = Some(<<"a">>)

\* C7: confirm_scopes returns True when the store holds a token for the refresh
\* token and the requested scopes are, as a set, that token's scopes; it
\* returns False otherwise, also when the store holds no such token.
C7_ConfirmScopes ==
    [][\A refresh_token \in TokenStrings, scopes \in ReqScopeLists :
         ConfirmScopesCall(refresh_token, scopes) =>
            last'.ret =
               IF \E t \in StoredRefresh(refresh_token) :
                     ToSet(t.scopes) = ToSet(scopes)
               THEN "True" ELSE "False"]_vars

\* C9 as stated: a stored token is accepted iff now is strictly earlier than
\* its expiry and the required scopes are a subset of its scopes.
C9_StrictExpiry ==
    [][\A token \in TokenStrings, scopes \in ReqScopeLists :
         ValidateBearerTokenCall(token, scopes) =>
            \A t \in StoredAccess(token) :
               (last'.ret = "True") <=>
                  (now < t.expires /\ ToSet(scopes) \subseteq ToSet(t.scopes))]_vars

\* C9 amended: a stored token is accepted iff now is not later than its expiry
\* and the required scopes are a subset of its scopes: at every time after the
\* expiry it is rejected, and a token rejected for expiry is rejected for
\* every scope requirement at every later time.
C9_Expiry ==
    [][/\ \A token \in TokenStrings, scopes \in ReqScopeLists :
            ValidateBearerTokenCall(token, scopes) =>
               \A t \in StoredAccess(token) :
                  (last'.ret = "True") <=>
                     (now <= t.expires /\ ToSet(scopes) \subseteq ToSet(t.scopes))
       /\ \A token \in TokenStrings, scopes \in ReqScopeLists :
            (\E t \in StoredAccess(token) : now > t.expires) =>
               (validate_bearer_token(token, scopes, request).ret = "False")'
      ]_vars

\* C9 witness: the token was accepted at the very instant of its expiry.
C9_Witness ==
    /\ last = [op |-> "validate_bearer_token", ret |-> "True"]
    /\ request.user = Some("alice")
    /\ now = 0
    /\ T1.expires = 0

\* C3: validate_redirect_uri returns True when the store holds a client for
\* client_id and redirect_uri is one of its redirect_uris, and False otherwise,
\* also when the client is unknown; it raises nothing.
C3_ValidateRedirectUri ==
    [][\A client_id \in ClientIds, redirect_uri \in RedirectUris :
         ValidateRedirectUriCall(client_id, redirect_uri) =>
            last'.ret =
               IF \E c \in StoredClient(client_id) :
                     redirect_uri \in ToSet(c.redirect_uris)
               THEN "True" ELSE "False"]_vars

\* C8 as stated: on a request with no client bound yet, authenticate_client_id
\* returns True iff the store holds a client for client_id whose client_type is
\* not 'confidential', whatever else the client record carries.
C8_NeverConfidential ==
    [][\A client_id \in ClientIds :
         (request.client = None /\ AuthenticateClientIdCall(client_id)) =>
            ((last'.ret = "True") <=>
                \E c \in StoredClient(client_id) : c.client_type # "confidential")
      ]_vars

\* the client a call resolves: the one bound to the request, else the store's
ResolvedClient(client_id) ==
    IF request.client # None THEN {Get(request.client)} ELSE StoredClient(client_id)

\* C8 amended: authenticate_client_id returns True iff a client is resolved (the
\* client already bound to the request, else the store's client for client_id)
\* and its client_type differs from the value that marks a confidential client:
\* the client's own `confidential` attribute when it has one, 'confidential'
\* otherwise. A resolved client with client_type 'confidential' and no
\* `confidential` attribute is never authenticated, and a call that resolves a
\* client binds it to the request.
C8_ConfidentialMarker ==
    [][\A client_id \in ClientIds :
         AuthenticateClientIdCall(client_id) =>
            /\ (last'.ret = "True") <=>
                  \E c \in ResolvedClient(client_id) :
                     \/ c.confidential = None /\ c.client_type # "confidential"
                     \/ c.confidential # None /\ c.client_type # Get(c.confidential)
            /\ \A c \in ResolvedClient(client_id) :
                  /\ request'.client = Some(c)
                  /\ (c.client_type = "confidential" /\ c.confidential = None)
                        => last'.ret = "False"
            /\ ResolvedClient(client_id) = {} => request' = request]_vars

\* C8 witness: a client whose client_type is 'confidential' and whose
\* `confidential` attribute is 'secret' has just been authenticated.
C8_Witness ==
    /\ last.op = "authenticate_client_id"
    /\ last.ret = "True"
    /\ request.client # None
    /\ Get(request.client).client_type = "confidential"
    /\ Get(request.client).confidential = Some("secret")

\* C10: whatever validator calls came before on the request, validate_client_id
\* returns True iff the store holds a client for client_id, and then the client
\* bound to the request is the store's client for client_id, whose values
\* get_default_redirect_uri and get_default_scopes go on to return.
C10_ValidateClientId ==
    [][\A client_id \in ClientIds :
         ValidateClientIdCall(client_id) =>
            /\ (last'.ret = "True") <=> (StoredClient(client_id) # {})
            /\ last'.ret = "True" =>
                  \E c \in StoredClient(client_id) :
                     /\ request'.client = Some(c)
                     /\ get_default_redirect_uri(client_id, request').val
                           = Some(c.default_redirect_uri)
                     /\ get_default_scopes(client_id, request').val
                           = Some(c.default_scopes)]_vars

\* the generic error URI the bound app's configuration names:
\* OAUTH_PROVIDER_ERROR_URI, else the URL of OAUTH_PROVIDER_ERROR_ENDPOINT,
\* else '/errors'
ConfiguredErrorUri ==
    LET c == Get(config) IN
    CASE c.OAUTH_PROVIDER_ERROR_URI \notin {None, Some("")}
            -> Get(c.OAUTH_PROVIDER_ERROR_URI)
      [] /\ c.OAUTH_PROVIDER_ERROR_URI \in {None, Some("")}
         /\ c.OAUTH_PROVIDER_ERROR_ENDPOINT = Some("oauth_error")
            -> "/oauth/errors"
      [] OTHER -> "/errors"

\* the request's client or redirect URI is not validated: no client_id, no
\* such client, or a redirect_uri the client has not registered
UnvalidatedClientOrUri(args) ==
    \/ args.client_id = None
    \/ /\ args.client_id # None
       /\ \/ StoredClient(Get(args.client_id)) = {}
          \/ /\ args.redirect_uri # None
             /\ \E c \in StoredClient(Get(args.client_id)) :
                   Get(args.redirect_uri) \notin ToSet(c.redirect_uris)

\* C4: when the authorization request's client or redirect URI is not
\* validated, the handler answers with a redirect to the configured generic
\* error URI, never to the redirect_uri of the request, and does not call the
\* consent view. (last is the response to the last request, made with the
\* getters and the app as they are now.)
C4_OpenRedirectSafety ==
    (/\ last.op = "authorize"
     /\ getters = AllGetters
     /\ UnvalidatedClientOrUri(last.args)) =>
        /\ last.kind = "redirect"
        /\ config # None
        /\ last.target = ConfiguredErrorUri
        /\ last.args.redirect_uri # Some(last.target)

\* C5: every authorization request that fails validation, fatal client error
\* or not, is answered with a redirect; no error leaves the handler, and the
\* consent view is called only when validation succeeded. (Stated for an
\* object with an app bound and its getters registered.)
C5_EveryFailureRedirects ==
    (last.op = "authorize" /\ getters = AllGetters /\ config # None) =>
        /\ validate_authorization_request(last.args).outcome # "ok"
              => last.kind = "redirect"
        /\ last.kind = "view"
              => validate_authorization_request(last.args).outcome = "ok"

====
